---- MODULE Spec2Model ----
(***************************************************************************)
(* Atlas photogrammetry service: job orchestration core.                   *)
(*                                                                         *)
(* The model covers the HTTP handlers of src/api/main.py (create_job,      *)
(* get_job_status, get_artifact, delete_job), the status file helpers, and *)
(* the Celery task run_reconstruction of src/worker/tasks.py with its      *)
(* update_job_status writes.  Storage is the three directories under       *)
(* STORAGE_ROOT: status/<id>.json, workspaces/<id>/ and artifacts/<id>.glb.*)
(* The API process handles one request at a time (the handlers are async   *)
(* functions that never await), while executor attempts run in worker      *)
(* processes and interleave with it at the granularity of file operations. *)
(***************************************************************************)
EXTENDS Integers, Sequences, FiniteSets, TLC

\* ------------------------------------------------------------ configuration

\* settings.MIN_IMAGES / MAX_IMAGES / MAX_UPLOAD_MB (values come from .env)
MIN_IMAGES == 2
MAX_IMAGES == 3
MAX_UPLOAD_MB == 1

\* the byte ceiling of create_job: settings.MAX_UPLOAD_MB * 1024 * 1024
UploadLimit == MAX_UPLOAD_MB * 1024 * 1024

\* task_time_limit / task_soft_time_limit of celery_app.conf (seconds)
task_time_limit == 7200
task_soft_time_limit == 6600

\* ------------------------------------------------------------------ bounds

\* the clock (datetime.utcnow) takes the values 0..MaxClock
MaxClock == 1
\* the broker delivers the task of one job at most this many times
MaxDeliveries == 2

\* the largest index of an uploaded file that is followed
MaxIndex == 10001
\* the staging loop is followed from these file counts on
StartCounts == {0, 998, 9998}

\* well-formed job ids (uuid4 strings) and one string that is no uuid
JobIds == {"j1", "j2"}
BadId == "not-a-uuid"
RequestIds == JobIds \cup {BadId}

\* sizes in bytes an uploaded file may have
HalfLimit == UploadLimit \div 2
FileSizes == {0, HalfLimit, UploadLimit + 1}
\* the uploads of one request: every list of MIN_IMAGES..MAX_IMAGES files,
\* one list that is too short and one that is too long
Uploads == UNION {[1..n -> FileSizes] : n \in MIN_IMAGES..MAX_IMAGES}
             \cup {[i \in 1..(MIN_IMAGES - 1) |-> 0], [i \in 1..(MAX_IMAGES + 1) |-> 0]}
\* the requests made while the executor is followed: one job, one upload that
\* is accepted and one that is too large
ExecIds == {"j1"}
ExecUploads == {<<HalfLimit, HalfLimit>>, <<HalfLimit, UploadLimit + 1>>}

\* ------------------------------------------------------------- dictionaries

\* a JSON object / Python dict is a function from keys to values
EmptyDict == [k \in {} |-> 0]
Has(d, k) == k \in DOMAIN d
\* mutant: the update replaces the record instead of merging into it
DictReplace(old, new) == new

\* dict.update(new): keys of new override those of old
DictUpdate(old, new) == new @@ old

\* a file of the status directory: absent, truncated by open(.., "w") and not
\* yet written, or holding a complete JSON object
NoFile == [st |-> "absent", data |-> EmptyDict]
TornFile == [st |-> "torn", data |-> EmptyDict]
FileOf(d) == [st |-> "ok", data |-> d]

\* uuid.UUID(job_id) accepts the id
IsUuid(id) == id \in JobIds

VARIABLES
    now,          \* the clock read by datetime.utcnow()
    sam,          \* settings.ENABLE_SAM_SEGMENTATION
    statusFile,   \* status/<id>.json
    ws,           \* workspaces/<id>/
    artifact,     \* artifacts/<id>.glb exists
    gltf,         \* artifacts/<id>.gltf exists (export fallback)
    issued,       \* job ids uuid4 has generated
    queue,        \* ids whose task message is in the broker
    deliveries,   \* how often the task of an id was handed to a worker
    ex,           \* the executor attempt of each id
    ex2,          \* a second attempt of each id, on another worker
    api,          \* the request the API process handles, or its last response
    hist,         \* history of each id, for stating the properties
    staging       \* the staging loop of create_job: the file names it has written

vars == <<now, sam, statusFile, ws, artifact, gltf, issued, queue, deliveries,
          ex, ex2, api, hist, staging>>

\* ---------------------------------------------------------------- helpers

NoWorkspace == [exists |-> FALSE, nimages |-> 0, dirs |-> {}, filled |-> {}]
StageDirs == {"masks", "sparse", "dense", "mesh", "output"}

\* a request in progress: the handler, where it stands, and its locals
Request(op, pc, job, n, total) ==
    [op |-> op, pc |-> pc, job |-> job, okJson |-> TRUE, n |-> n, total |-> total,
     written |-> 0, last |-> 0, code |-> 0, detail |-> ""]
IdleEx == [ph |-> "idle", sub |-> "idle", data |-> EmptyDict, err |-> "", metrics |-> ""]

\* a request that has returned: the HTTP status code and the detail; last is
\* the size of the last file a failed staging loop wrote
Response(op, code, job, n, total, written, detail) ==
    [op |-> op, pc |-> "done", job |-> job, okJson |-> TRUE, n |-> n, total |-> total,
     written |-> written, last |-> 0, code |-> code, detail |-> detail]
NoResponse == Response("none", 0, "", 0, 0, 0, "")
\* the API process takes the next request when the last one has returned
ApiFree == api.pc = "done"

\* what is remembered of a job: whether a completed or failed record was ever
\* visible, whether export_glb ever wrote the artifact, the largest progress
\* ever visible, whether a stage adapter ran after a terminal record, how the
\* last attempt ended, and whether delete_job was called for it or an attempt
\* of it was killed; how many delete_job calls have returned for it (counted
\* to 2), whether no attempt has run since the last delete_job call began, and
\* whether an attempt was running when the last delete_job call returned; the
\* stage adapters the current attempt has invoked, and whether an attempt ever
\* invoked one a second time
NoHist == [terminal |-> FALSE, completed |-> FALSE, exported |-> FALSE,
           maxProgress |-> 0, dropped |-> FALSE, stageAfterTerminal |-> FALSE,
           outcome |-> "none", deleted |-> FALSE, killed |-> FALSE,
           deletes |-> 0, delQuiet |-> FALSE, delDuring |-> FALSE,
           invoked |-> {}, reinvoked |-> FALSE]

\* datetime.utcnow(): the clock never goes back; it is capped at MaxClock
TimesFrom(t0) == {t \in t0..(t0 + 1) : t <= MaxClock}
Times == TimesFrom(now)

\* ------------------------------------------------------------- file names

\* strings are sequences of character codes: "0".."9" are 48..57, "." is 46,
\* "A".."Z" are 65..90 and "a".."z" 97..122
JpgExt == <<46, 106, 112, 103>>
\* the extensions os.path.splitext finds in the uploaded file names: none,
\* ".jpg", ".PNG"
UploadExts == {<<>>, JpgExt, <<46, 80, 78, 71>>}

\* str(n): the decimal digits of n
RECURSIVE Digits(_)
Digits(n) == IF n < 10 THEN <<48 + n>> ELSE Append(Digits(n \div 10), 48 + (n % 10))

\* padding with "0" on the left up to the width w; longer strings are kept
RECURSIVE ZeroPad(_, _)
ZeroPad(str, w) == IF Len(str) >= w THEN str ELSE ZeroPad(<<48>> \o str, w)

\* mutant: the index is padded to 3 digits
FormatIndex3(i) == ZeroPad(Digits(i), 3)

\* f"{i:04d}"
FormatIndex(i) == ZeroPad(Digits(i), 4)

\* str.lower()
Lower(str) == [k \in 1..Len(str) |-> IF str[k] \in 65..90 THEN str[k] + 32 ELSE str[k]]

\* os.path.splitext(original_filename)[1].lower() or ".jpg"
ExtOf(e) == IF Lower(e) = <<>> THEN JpgExt ELSE Lower(e)

\* the name of the i-th file (0-based) in images/: f"{i:04d}{ext}"
FileName(i, e) == FormatIndex(i) \o ExtOf(e)

\* the order of Python strings, which sorted() uses: a < b
RECURSIVE LexLess(_, _)
LexLess(a, b) ==
    IF b = <<>> THEN FALSE
    ELSE IF a = <<>> THEN TRUE
    ELSE IF a[1] # b[1] THEN a[1] < b[1]
    ELSE LexLess(Tail(a), Tail(b))

\* the staging loop before its first file, and after it has written the files
\* 0..count-1, of which prev and last are the names of the last two
NoStaging == [count |-> 0, prev |-> <<>>, last |-> <<>>]
StagingAt(c, e1, e2) ==
    [count |-> c, prev |-> IF c >= 2 THEN FileName(c - 2, e1) ELSE <<>>,
     last |-> IF c >= 1 THEN FileName(c - 1, e2) ELSE <<>>]

\* one pass of the staging loop: file number staging.count is written
StageFile(e) ==
    /\ staging.count <= MaxIndex
    /\ staging' = [count |-> staging.count + 1, prev |-> staging.last,
                   last |-> FileName(staging.count, e)]
    /\ UNCHANGED <<now, sam, statusFile, ws, artifact, gltf, issued, queue, deliveries,
                   ex, ex2, api, hist>>

\* ------------------------------------------------------------- create_job

\* mutant: the size check with >= in place of >
TooLargeAtLimit(total) == total >= UploadLimit

\* the size check made after each file: total_size > MAX_UPLOAD_MB * 1024 * 1024
TooLarge(total) == total > UploadLimit

\* the staging loop: file i (1-based here, index i-1 in the code) is written,
\* its size added to the running total, and the total checked; the loop stops
\* at the first file whose running total is too large
RECURSIVE SumSizes(_, _)
SumSizes(sizes, i) == IF i > Len(sizes) THEN 0 ELSE sizes[i] + SumSizes(sizes, i + 1)

\* mutant: every file is written and the size check is made once, after the loop
StageLoopChecksAtEnd(sizes, i, total) ==
    LET t == total + SumSizes(sizes, i)
    IN  IF Len(sizes) >= i /\ TooLarge(t)
        THEN [ok |-> FALSE, written |-> Len(sizes), total |-> t, last |-> sizes[Len(sizes)]]
        ELSE [ok |-> TRUE, written |-> Len(sizes), total |-> t, last |-> 0]

RECURSIVE StageLoop(_, _, _)
StageLoop(sizes, i, total) ==
    IF i > Len(sizes)
    THEN [ok |-> TRUE, written |-> Len(sizes), total |-> total, last |-> 0]
    ELSE LET t == total + sizes[i]
         IN  IF TooLarge(t)
             THEN [ok |-> FALSE, written |-> i, total |-> t, last |-> sizes[i]]
             ELSE StageLoop(sizes, i + 1, t)

\* mutant: the lower bound of the image count is not checked
ValidationErrorNoMin(okJson, n) ==
    IF ~okJson THEN "Invalid JSON in options parameter"
    ELSE IF n > MAX_IMAGES THEN "Maximum MAX_IMAGES images allowed"
    ELSE ""

\* mutant: the upper bound of the image count is not checked
ValidationErrorNoMax(okJson, n) ==
    IF ~okJson THEN "Invalid JSON in options parameter"
    ELSE IF n < MIN_IMAGES THEN "Need at least MIN_IMAGES images"
    ELSE ""

\* the checks made before a job id is generated; "" when all pass
ValidationError(okJson, n) ==
    IF ~okJson THEN "Invalid JSON in options parameter"
    ELSE IF n < MIN_IMAGES THEN "Need at least MIN_IMAGES images"
    ELSE IF n > MAX_IMAGES THEN "Maximum MAX_IMAGES images allowed"
    ELSE ""

\* round(total_size / (1024 * 1024), 2), in hundredths of a megabyte
RoundMb(total) == (total * 100 + 524288) \div 1048576

\* the record create_job writes for a new job
QueuedRecord(id, n, total, t) ==
    [job_id |-> id, status |-> "queued", created_at |-> t, num_images |-> n,
     total_size_mb |-> RoundMb(total), options |-> "opts", progress |-> 0,
     message |-> "Job queued for processing"]

\* mutant: save_job_status writes nothing
SaveJobStatusSkipped(id, d) == statusFile' = statusFile

\* save_job_status: open(status_file, "w") and json.dump
SaveJobStatus(id, d) == statusFile' = [statusFile EXCEPT ![id] = FileOf(d)]

\* mutant: the partial upload is not cleaned up
StagedWorkspaceKept(r) ==
    [exists |-> TRUE, nimages |-> r.written, dirs |-> {"images"}, filled |-> {}]

\* the workspace after the staging loop: images/ with the files written, or
\* nothing when the loop failed, since shutil.rmtree(job_dir) removes it
StagedWorkspace(r) ==
    IF r.ok
    THEN [exists |-> TRUE, nimages |-> r.written, dirs |-> {"images"}, filled |-> {}]
    ELSE NoWorkspace

\* create_job up to the end of the staging loop: parse the options, check the
\* count, generate the id (uuid4 returns an id never seen before, in a job or
\* in a request), create workspaces/<id>/images and write the files
CreateJobStage(okJson, sizes, id) ==
    /\ ApiFree
    /\ LET n == Len(sizes)
           e == ValidationError(okJson, n)
           r == StageLoop(sizes, 1, 0)
       IN  IF e # ""
           THEN /\ api' = [Response("create", 400, "", n, 0, 0, e)
                              EXCEPT !.okJson = okJson]
                /\ UNCHANGED <<ws, issued>>
           ELSE /\ id \notin issued /\ ~hist[id].deleted
                /\ issued' = issued \cup {id}
                /\ ws' = [ws EXCEPT ![id] = StagedWorkspace(r)]
                /\ api' = IF r.ok
                           THEN [Request("create", "save", id, n, r.total)
                                   EXCEPT !.written = r.written, !.okJson = okJson]
                           ELSE [Response("create", 413, id, n, r.total, r.written,
                                          "Total upload size exceeds limit")
                                   EXCEPT !.okJson = okJson, !.last = r.last]
    /\ UNCHANGED <<staging, ex2, now, sam, statusFile, artifact, gltf, queue, deliveries, ex, hist>>

\* mutant: the task is enqueued first, the queued record is left for later
CreateJobSaveEnqueuesFirst ==
    /\ api.op = "create" /\ api.pc = "save"
    /\ queue' = queue \cup {api.job}
    /\ api' = [api EXCEPT !.pc = "enqueue"]
    /\ UNCHANGED <<staging, ex2, now, sam, statusFile, ws, artifact, gltf, issued,
                   deliveries, ex, hist>>

\* create_job: build the queued record and save it
CreateJobSave ==
    /\ api.op = "create" /\ api.pc = "save"
    /\ \E t \in Times :
         /\ now' = t
         /\ SaveJobStatus(api.job, QueuedRecord(api.job, api.n, api.total, t))
    /\ api' = [api EXCEPT !.pc = "enqueue"]
    /\ UNCHANGED <<staging, ex2, sam, ws, artifact, gltf, issued, queue, deliveries, ex, hist>>

\* create_job: run_reconstruction.delay(job_id, opts) and the 201 response;
\* when the broker refuses the message the exception leaves the handler (500)
CreateJobEnqueue(brokerOk) ==
    /\ api.op = "create" /\ api.pc = "enqueue"
    /\ IF brokerOk
       THEN /\ queue' = queue \cup {api.job}
            /\ api' = Response("create", 201, api.job, api.n, api.total, api.written,
                               "Job created successfully")
       ELSE /\ UNCHANGED queue
            /\ api' = Response("create", 500, api.job, api.n, api.total, api.written,
                               "broker error")
    /\ UNCHANGED <<staging, ex2, now, sam, statusFile, ws, artifact, gltf, issued, deliveries, ex, hist>>

\* ------------------------------------------------ get_job_status, get_artifact

\* the helper get_job_status: None when the file is absent, else json.load,
\* which raises on a file that is not a complete JSON document
ReadStatus(id) ==
    IF statusFile[id].st = "absent" THEN [kind |-> "none", data |-> EmptyDict]
    ELSE IF statusFile[id].st = "torn" THEN [kind |-> "error", data |-> EmptyDict]
    ELSE [kind |-> "dict", data |-> statusFile[id].data]

\* what GET /api/v1/jobs/{job_id} answers in the current state
StatusResponse(id) ==
    IF ~IsUuid(id) THEN [code |-> 400, body |-> EmptyDict]
    ELSE LET r == ReadStatus(id)
         IN  IF r.kind = "error" THEN [code |-> 500, body |-> EmptyDict]
             ELSE IF r.kind = "none" \/ r.data = EmptyDict
             THEN [code |-> 404, body |-> EmptyDict]
             ELSE [code |-> 200, body |-> r.data]

\* mutant: the artifact is served whatever the status of the record
ArtifactResponseNoGate(id) ==
    IF ~IsUuid(id) THEN [code |-> 400, detail |-> "Invalid job ID format"]
    ELSE LET r == ReadStatus(id)
         IN  IF r.kind = "error" THEN [code |-> 500, detail |-> "JSONDecodeError"]
             ELSE IF r.kind = "none" \/ r.data = EmptyDict
             THEN [code |-> 404, detail |-> "Job not found"]
             ELSE IF ~artifact[id]
             THEN [code |-> 404, detail |-> "Artifact file not found"]
             ELSE [code |-> 200, detail |-> "file"]

\* what GET /api/v1/jobs/{job_id}/artifact answers in the current state
ArtifactResponse(id) ==
    IF ~IsUuid(id) THEN [code |-> 400, detail |-> "Invalid job ID format"]
    ELSE LET r == ReadStatus(id)
         IN  IF r.kind = "error" THEN [code |-> 500, detail |-> "JSONDecodeError"]
             ELSE IF r.kind = "none" \/ r.data = EmptyDict
             THEN [code |-> 404, detail |-> "Job not found"]
             ELSE IF ~Has(r.data, "status")
             THEN [code |-> 409, detail |-> "unknown"]
             ELSE IF r.data.status # "completed"
             THEN [code |-> 409, detail |-> r.data.status]
             ELSE IF ~artifact[id]
             THEN [code |-> 404, detail |-> "Artifact file not found"]
             ELSE [code |-> 200, detail |-> "file"]

\* GET /api/v1/jobs/{job_id}: answers from the status file, writes nothing
GetJobStatus(id) ==
    /\ ApiFree
    /\ StatusResponse(id).code \in {200, 400, 404, 500}
    /\ UNCHANGED vars

\* mutant: the artifact is removed once it has been served
GetArtifactConsumes(id) ==
    /\ ApiFree
    /\ ArtifactResponse(id).code \in {200, 400, 404, 409, 500}
    /\ artifact' = IF ArtifactResponse(id).code = 200
                   THEN [artifact EXCEPT ![id] = FALSE] ELSE artifact
    /\ UNCHANGED <<staging, ex2, now, sam, statusFile, ws, gltf, issued, queue, deliveries,
                   ex, api, hist>>

\* GET /api/v1/jobs/{job_id}/artifact: answers from the status file and the
\* artifact store, writes nothing
GetArtifact(id) ==
    /\ ApiFree
    /\ ArtifactResponse(id).code \in {200, 400, 404, 409, 500}
    /\ UNCHANGED vars

\* --------------------------------------------------------------- delete_job

\* DELETE /api/v1/jobs/{job_id}: the id check and the removal of the workspace
DeleteJobWorkspace(id) ==
    /\ ApiFree
    /\ IF ~IsUuid(id)
       THEN /\ api' = Response("delete", 400, id, 0, 0, 0, "Invalid job ID format")
            /\ UNCHANGED <<ws, hist>>
       ELSE /\ ws' = [ws EXCEPT ![id] = NoWorkspace]
            /\ api' = Request("delete", "artifact", id, 0, 0)
            /\ hist' = [hist EXCEPT ![id].deleted = TRUE,
                                    ![id].delQuiet = (ex[id].ph = "idle")]
    /\ UNCHANGED <<staging, ex2, now, sam, statusFile, artifact, gltf, issued, queue, deliveries, ex>>

\* mutant: delete_job leaves artifacts/<id>.glb in place
DeleteJobArtifactSkipped ==
    /\ api.op = "delete" /\ api.pc = "artifact"
    /\ api' = [api EXCEPT !.pc = "status"]
    /\ UNCHANGED <<staging, ex2, now, sam, statusFile, ws, artifact, gltf, issued, queue, deliveries,
                   ex, hist>>

\* mutant: delete_job empties the artifacts directory
DeleteJobArtifactAll ==
    /\ api.op = "delete" /\ api.pc = "artifact"
    /\ artifact' = [id \in JobIds |-> FALSE]
    /\ api' = [api EXCEPT !.pc = "status"]
    /\ UNCHANGED <<staging, ex2, now, sam, statusFile, ws, gltf, issued, queue, deliveries, ex, hist>>

\* delete_job: os.remove of artifacts/<id>.glb when it exists
DeleteJobArtifact ==
    /\ api.op = "delete" /\ api.pc = "artifact"
    /\ artifact' = [artifact EXCEPT ![api.job] = FALSE]
    /\ api' = [api EXCEPT !.pc = "status"]
    /\ UNCHANGED <<staging, ex2, now, sam, statusFile, ws, gltf, issued, queue, deliveries, ex, hist>>

\* delete_job: os.remove of status/<id>.json when it exists, and the response
DeleteJobStatus ==
    /\ api.op = "delete" /\ api.pc = "status"
    /\ statusFile' = [statusFile EXCEPT ![api.job] = NoFile]
    /\ api' = Response("delete", 200, api.job, 0, 0, 0, "deleted successfully")
    /\ hist' = [hist EXCEPT ![api.job].deletes = IF @ < 2 THEN @ + 1 ELSE @,
                            ![api.job].delDuring = (ex[api.job].ph # "idle")]
    /\ UNCHANGED <<staging, ex2, now, sam, ws, artifact, gltf, issued, queue, deliveries, ex>>

\* -------------------------------------------------------- update_job_status

\* the phases of run_reconstruction in program order; each is a status write
\* followed by a call ("start": the makedirs, "final": the return), but for
\* "metrics", the call of compute_qa_metrics, which writes no status
Phases == <<"start", "seg", "sparse", "dense", "post", "export", "metrics", "final">>

\* self.request.retries: the task never calls self.retry
Retries == 0

\* mutant: the completed write carries the progress of the export stage
StageProgressFinalShort(ph) ==
    CASE ph = "start" -> 0
      [] ph = "seg" -> 10
      [] ph = "sparse" -> 20
      [] ph = "dense" -> 50
      [] ph = "post" -> 70
      [] ph = "export" -> 90
      [] ph = "final" -> 90
      [] ph = "except" -> Retries * 10

\* the progress argument of the status write of each phase
StageProgress(ph) ==
    CASE ph = "start" -> 0
      [] ph = "seg" -> 10
      [] ph = "sparse" -> 20
      [] ph = "dense" -> 50
      [] ph = "post" -> 70
      [] ph = "export" -> 90
      [] ph = "final" -> 100
      [] ph = "except" -> Retries * 10

\* the message argument of the status write of each phase
StageMessage(ph) ==
    CASE ph = "start" -> "Pipeline started"
      [] ph = "seg" -> "Running SAM segmentation..."
      [] ph = "sparse" -> "Running sparse reconstruction (OpenMVG)..."
      [] ph = "dense" -> "Running dense reconstruction (OpenMVS)..."
      [] ph = "post" -> "Post-processing mesh..."
      [] ph = "export" -> "Exporting to GLB format..."
      [] ph = "final" -> "Reconstruction complete"
      [] ph = "except" -> "Error: "

\* mutant: the first write of an attempt puts the job back to queued
StageStatusRequeues(ph) ==
    IF ph = "final" THEN "completed" ELSE IF ph = "except" THEN "failed"
    ELSE IF ph = "start" THEN "queued" ELSE "processing"

\* the status argument of the status write of each phase
StageStatus(ph) ==
    IF ph = "final" THEN "completed" ELSE IF ph = "except" THEN "failed" ELSE "processing"

\* the metrics argument of the completed write: what compute_qa_metrics
\* returned to this attempt
ComputeQaMetrics(id) == ex[id].metrics

\* mutant: completed_at is not taken from the clock
UpdateFieldsEpoch(id, ph, err, tCall, tUpd) ==
    LET base == [status |-> StageStatus(ph), progress |-> StageProgress(ph),
                 message |-> StageMessage(ph), updated_at |-> tUpd]
    IN  CASE ph = "final" ->
               [completed_at |-> 0, metrics |-> ComputeQaMetrics(id)] @@ base
          [] ph = "except" ->
               [error |-> err, traceback |-> "traceback"] @@ base
          [] OTHER -> base

\* the fields one call of update_job_status sets: status, progress, message and
\* updated_at, and the keyword arguments of the call
UpdateFields(id, ph, err, tCall, tUpd) ==
    LET base == [status |-> StageStatus(ph), progress |-> StageProgress(ph),
                 message |-> StageMessage(ph), updated_at |-> tUpd]
    IN  CASE ph = "final" ->
               [completed_at |-> tCall, metrics |-> ComputeQaMetrics(id)] @@ base
          [] ph = "except" ->
               [error |-> err, traceback |-> "traceback"] @@ base
          [] OTHER -> base

\* mutant: the exception leaves the task without the failed record being written
RaiseUnrecorded(id, msg) ==
    [ph |-> "except", sub |-> "run", data |-> EmptyDict, err |-> msg, metrics |-> ""]

\* mutant: a stage that raises is run again
RaiseRetriesStage(id, msg) ==
    IF msg = "stage error"
    THEN [ex[id] EXCEPT !.sub = "run"]
    ELSE [ph |-> "except", sub |-> "read", data |-> EmptyDict, err |-> msg, metrics |-> ""]

\* where an exception raised inside the try block of run_reconstruction goes:
\* the except clause, which writes the failed record
Raise(id, msg) ==
    [ph |-> "except", sub |-> "read", data |-> EmptyDict, err |-> msg, metrics |-> ""]

\* update_job_status, first part: read the existing record (or start from an
\* empty one) and merge the new fields into it
UpdRead(id) ==
    /\ ex[id].sub = "read"
    /\ LET r == ReadStatus(id)
       IN  IF r.kind = "error"
           THEN \* json.load raises; inside the except clause it ends the attempt
                /\ ex' = [ex EXCEPT ![id] =
                            IF ex[id].ph = "except" THEN IdleEx
                            ELSE Raise(id, "JSONDecodeError")]
                /\ hist' = [hist EXCEPT ![id].outcome =
                                           IF ex[id].ph = "except" THEN "crashed" ELSE @,
                                         ![id].invoked =
                                           IF ex[id].ph = "except" THEN {} ELSE @]
                /\ UNCHANGED now
           ELSE \* the completed write reads the clock for completed_at before
                \* the call; every write reads it for updated_at
                \E tCall \in (IF ex[id].ph = "final" THEN Times ELSE {now}) :
                \E tUpd \in TimesFrom(tCall) :
                /\ now' = tUpd
                /\ ex' = [ex EXCEPT ![id].sub = "trunc",
                                    ![id].data = DictUpdate(r.data,
                                       UpdateFields(id, ex[id].ph, ex[id].err, tCall, tUpd))]
                /\ UNCHANGED hist
    /\ UNCHANGED <<staging, ex2, sam, statusFile, ws, artifact, gltf, issued, queue, deliveries, api>>

\* update_job_status, second part: open(status_file, "w") creates or empties
\* the file
UpdTrunc(id) ==
    /\ ex[id].sub = "trunc"
    /\ statusFile' = [statusFile EXCEPT ![id] = TornFile]
    /\ ex' = [ex EXCEPT ![id].sub = "write"]
    /\ UNCHANGED <<staging, ex2, now, sam, ws, artifact, gltf, issued, queue, deliveries, api, hist>>

\* the history after the record d has become visible
Seen(h, d) ==
    [h EXCEPT !.terminal = @ \/ d.status \in {"completed", "failed"},
              !.completed = @ \/ d.status = "completed",
              !.dropped = @ \/ d.progress < h.maxProgress,
              !.maxProgress = IF d.progress > @ THEN d.progress ELSE @]

\* update_job_status, third part: json.dump into the open file.  A file that
\* delete_job removed since the open stays removed: the write goes to the
\* unlinked file
UpdWrite(id) ==
    /\ ex[id].sub = "write"
    /\ IF statusFile[id].st = "absent"
       THEN UNCHANGED <<statusFile, hist>>
       ELSE /\ statusFile' = [statusFile EXCEPT ![id] = FileOf(ex[id].data)]
            /\ hist' = [hist EXCEPT ![id] = Seen(@, ex[id].data)]
    /\ ex' = [ex EXCEPT ![id].sub = "run", ![id].data = EmptyDict]
    /\ UNCHANGED <<staging, ex2, now, sam, ws, artifact, gltf, issued, queue, deliveries, api>>

\* --------------------------------------------------------- run_reconstruction

\* mutant: dense reconstruction is skipped
NextPhaseSkipsDense(ph) ==
    CASE ph = "start" -> "seg"
      [] ph = "seg" -> "sparse"
      [] ph = "sparse" -> "post"
      [] ph = "dense" -> "post"
      [] ph = "post" -> "export"
      [] ph = "export" -> "final"

\* the phase after ph in program order
NextPhase(ph) ==
    CASE ph = "start" -> "seg"
      [] ph = "seg" -> "sparse"
      [] ph = "sparse" -> "dense"
      [] ph = "dense" -> "post"
      [] ph = "post" -> "export"
      [] ph = "export" -> "final"

\* entering a phase: its status write comes first, except for the
\* segmentation phase with ENABLE_SAM_SEGMENTATION off, which writes none
Enter(ph) ==
    [ph |-> ph, sub |-> IF ph = "seg" /\ ~sam THEN "run" ELSE "read",
     data |-> EmptyDict, err |-> "", metrics |-> ""]

\* the broker hands the task of a job to a worker, which starts
\* run_reconstruction(job_id, options); the message may be delivered again
\* once no attempt for the job is running
Deliver(id) ==
    /\ id \in queue
    /\ ex[id].ph = "idle"
    /\ deliveries[id] < MaxDeliveries
    /\ deliveries' = [deliveries EXCEPT ![id] = @ + 1]
    /\ ex' = [ex EXCEPT ![id] = Enter("start")]
    /\ hist' = [hist EXCEPT ![id].outcome = "running", ![id].delQuiet = FALSE,
                            ![id].delDuring = FALSE, ![id].invoked = {}]
    /\ UNCHANGED <<staging, ex2, now, sam, statusFile, ws, artifact, gltf, issued, queue, api>>

\* the five os.makedirs(.., exist_ok=True) of the stage directories; they
\* create workspaces/<id> when it is missing, but not its images directory
MakeDirs(id) ==
    /\ ex[id].ph = "start" /\ ex[id].sub = "run"
    /\ ws' = [ws EXCEPT ![id].exists = TRUE, ![id].dirs = @ \cup StageDirs]
    /\ ex' = [ex EXCEPT ![id] = Enter("seg")]
    /\ UNCHANGED <<staging, ex2, now, sam, statusFile, artifact, gltf, issued, queue, deliveries,
                   api, hist>>

\* the directories a stage adapter reads and the ones it fills
StageInputs(ph) ==
    CASE ph = "seg" -> {"images"}
      [] ph = "sparse" -> {"images", "masks"}
      [] ph = "dense" -> {"sparse"}
      [] ph = "post" -> {"mesh"}
      [] ph = "export" -> {"output"}

StageOutputs(ph) ==
    CASE ph = "seg" -> {"masks"}
      [] ph = "sparse" -> {"sparse"}
      [] ph = "dense" -> {"dense", "mesh"}
      [] ph = "post" -> {"output"}
      [] ph = "export" -> {}

\* the directories of a workspace that hold files
Present(w) == w.filled \cup (IF w.exists /\ "images" \in w.dirs /\ w.nimages > 0
                             THEN {"images"} ELSE {})

\* a stage adapter can succeed when what it reads is there and the
\* directories it writes exist
CanSucceed(id, ph) ==
    /\ StageInputs(ph) \subseteq Present(ws[id])
    /\ StageOutputs(ph) \subseteq ws[id].dirs

\* the history after a stage adapter was invoked
Invoked(h, ph) ==
    [h EXCEPT !.stageAfterTerminal = @ \/ h.terminal,
              !.invoked = @ \cup {ph},
              !.reinvoked = @ \/ ph \in h.invoked]

\* stages 1 to 4: run_sam_segmentation (or the white masks written in its
\* place), run_openmvg, run_openmvs_pipeline, run_postprocessing.  The adapter
\* returns after filling its output directories, or raises
RunStage(id, ok) ==
    /\ ex[id].ph \in {"seg", "sparse", "dense", "post"} /\ ex[id].sub = "run"
    /\ LET ph == ex[id].ph
       IN  IF ph = "seg" /\ ~sam /\ "images" \notin Present(ws[id])
           THEN \* glob finds no image: the loop body never runs
                /\ ex' = [ex EXCEPT ![id] = Enter("sparse")]
                /\ UNCHANGED ws
           ELSE IF ok /\ CanSucceed(id, ph)
           THEN /\ ws' = [ws EXCEPT ![id].filled = @ \cup StageOutputs(ph)]
                /\ ex' = [ex EXCEPT ![id] = Enter(NextPhase(ph))]
           ELSE /\ ex' = [ex EXCEPT ![id] = Raise(id, "stage error")]
                /\ UNCHANGED ws
    /\ hist' = [hist EXCEPT ![id] = IF ex[id].ph = "seg" /\ ~sam THEN @ ELSE Invoked(@, ex[id].ph)]
    /\ UNCHANGED <<staging, ex2, now, sam, statusFile, artifact, gltf, issued, queue, deliveries,
                   api>>

\* after export_glb has returned: the call of compute_qa_metrics
EnterMetrics == [ph |-> "metrics", sub |-> "run", data |-> EmptyDict, err |-> "", metrics |-> ""]

\* mutant: a failed GLB export leaves a partial artifacts/<id>.glb behind
ExportGlbPartial(id, outcome) ==
    /\ ex[id].ph = "export" /\ ex[id].sub = "run"
    /\ IF outcome = "raise" \/ ~CanSucceed(id, "export")
       THEN /\ ex' = [ex EXCEPT ![id] = Raise(id, "export error")]
            /\ hist' = [hist EXCEPT ![id] = Invoked(@, "export")]
            /\ UNCHANGED <<artifact, gltf>>
       ELSE /\ ex' = [ex EXCEPT ![id] = EnterMetrics]
            /\ artifact' = [artifact EXCEPT ![id] = TRUE]
            /\ IF outcome = "glb"
               THEN /\ hist' = [hist EXCEPT ![id] = [Invoked(@, "export") EXCEPT !.exported = TRUE]]
                    /\ UNCHANGED gltf
               ELSE /\ gltf' = [gltf EXCEPT ![id] = TRUE]
                    /\ hist' = [hist EXCEPT ![id] = Invoked(@, "export")]
    /\ UNCHANGED <<staging, ex2, now, sam, statusFile, ws, issued, queue, deliveries, api>>

\* stage 5, export_glb: writes artifacts/<id>.glb; when the GLB export fails
\* it writes artifacts/<id>.gltf instead and returns; it raises when there is
\* no mesh or the fallback fails too
ExportGlb(id, outcome) ==
    /\ ex[id].ph = "export" /\ ex[id].sub = "run"
    /\ IF outcome = "raise" \/ ~CanSucceed(id, "export")
       THEN /\ ex' = [ex EXCEPT ![id] = Raise(id, "export error")]
            /\ hist' = [hist EXCEPT ![id] = Invoked(@, "export")]
            /\ UNCHANGED <<artifact, gltf>>
       ELSE /\ ex' = [ex EXCEPT ![id] = EnterMetrics]
            /\ IF outcome = "glb"
               THEN /\ artifact' = [artifact EXCEPT ![id] = TRUE]
                    /\ hist' = [hist EXCEPT ![id] = [Invoked(@, "export") EXCEPT !.exported = TRUE]]
                    /\ UNCHANGED gltf
               ELSE /\ gltf' = [gltf EXCEPT ![id] = TRUE]
                    /\ hist' = [hist EXCEPT ![id] = Invoked(@, "export")]
                    /\ UNCHANGED artifact
    /\ UNCHANGED <<staging, ex2, now, sam, statusFile, ws, issued, queue, deliveries, api>>

\* compute_qa_metrics, first part: os.path.exists(glb_path); the default
\* metrics are returned when the .glb is not there
QaMetricsExists(id) ==
    /\ ex[id].ph = "metrics" /\ ex[id].sub = "run"
    /\ ex' = [ex EXCEPT ![id] =
                IF artifact[id]
                THEN [@ EXCEPT !.sub = "size"]
                ELSE [Enter("final") EXCEPT !.metrics = "default"]]
    /\ UNCHANGED <<staging, ex2, now, sam, statusFile, ws, artifact, gltf, issued, queue, deliveries,
                   api, hist>>

\* compute_qa_metrics, second part: os.path.getsize(glb_path), outside the
\* try block, raises when the .glb was removed since the check; the analysis
\* of the file is inside the try block and cannot raise
QaMetricsMeasure(id) ==
    /\ ex[id].ph = "metrics" /\ ex[id].sub = "size"
    /\ ex' = [ex EXCEPT ![id] =
                IF artifact[id]
                THEN [Enter("final") EXCEPT !.metrics = "measured"]
                ELSE Raise(id, "FileNotFoundError")]
    /\ UNCHANGED <<staging, ex2, now, sam, statusFile, ws, artifact, gltf, issued, queue, deliveries,
                   api, hist>>

\* the end of an attempt: the return after the completed record is written,
\* or the "raise exc" after the failed record is written
Finish(id) ==
    /\ ex[id].ph \in {"final", "except"} /\ ex[id].sub = "run"
    /\ ex' = [ex EXCEPT ![id] = IdleEx]
    /\ hist' = [hist EXCEPT ![id].outcome =
                                IF ex[id].ph = "final" THEN "returned" ELSE "raised",
                            ![id].invoked = {}]
    /\ UNCHANGED <<staging, ex2, now, sam, statusFile, ws, artifact, gltf, issued, queue, deliveries,
                   api>>

\* the worker process of an attempt is killed (task_time_limit, a crash)
Kill(id) ==
    /\ ex[id].ph # "idle"
    /\ ex' = [ex EXCEPT ![id] = IdleEx]
    /\ hist' = [hist EXCEPT ![id].outcome = "killed", ![id].killed = TRUE,
                            ![id].invoked = {}]
    /\ UNCHANGED <<staging, ex2, now, sam, statusFile, ws, artifact, gltf, issued, queue, deliveries,
                   api>>

\* the broker hands the task of a job to a second worker while the attempt of
\* the first is running: the Redis transport restores a message a worker has
\* reserved and not acknowledged, and neither the worker configuration nor
\* run_reconstruction looks for a running attempt.  The running attempt is the
\* one in ex2 from here on
Redeliver(id) ==
    /\ id \in queue
    /\ ex[id].ph # "idle" /\ ex2[id].ph = "idle"
    /\ deliveries[id] < MaxDeliveries
    /\ deliveries' = [deliveries EXCEPT ![id] = @ + 1]
    /\ ex2' = [ex2 EXCEPT ![id] = ex[id]]
    /\ ex' = [ex EXCEPT ![id] = Enter("start")]
    /\ UNCHANGED <<staging, now, sam, statusFile, ws, artifact, gltf, issued, queue, api,
                   hist>>

\* two workers run independently: the attempt that takes the next step is the
\* other one
Switch(id) ==
    /\ ex2[id].ph # "idle"
    /\ ex' = [ex EXCEPT ![id] = ex2[id]]
    /\ ex2' = [ex2 EXCEPT ![id] = ex[id]]
    /\ UNCHANGED <<staging, now, sam, statusFile, ws, artifact, gltf, issued, queue, deliveries,
                   api, hist>>

\* ------------------------------------------------------------ specification

InitJobs ==
    /\ now = 0
    /\ sam \in BOOLEAN
    /\ statusFile = [id \in JobIds |-> NoFile]
    /\ ws = [id \in JobIds |-> NoWorkspace]
    /\ artifact = [id \in JobIds |-> FALSE]
    /\ gltf = [id \in JobIds |-> FALSE]
    /\ issued = {}
    /\ queue = {}
    /\ deliveries = [id \in JobIds |-> 0]
    /\ ex = [id \in JobIds |-> IdleEx]
    /\ ex2 = [id \in JobIds |-> IdleEx]
    /\ api = NoResponse
    /\ hist = [id \in JobIds |-> NoHist]

Init == InitJobs /\ staging = NoStaging

\* the executor of a job
Executor(id) ==
    \/ Deliver(id)
    \/ UpdRead(id)
    \/ UpdTrunc(id)
    \/ UpdWrite(id)
    \/ MakeDirs(id)
    \/ \E ok \in BOOLEAN : RunStage(id, ok)
    \/ \E outcome \in {"glb", "gltf", "raise"} : ExportGlb(id, outcome)
    \/ QaMetricsExists(id)
    \/ QaMetricsMeasure(id)
    \/ Finish(id)
    \/ Kill(id)

\* the API process and the workers, for one job
Next ==
    \/ \E okJson \in BOOLEAN, sizes \in ExecUploads, id \in ExecIds :
          CreateJobStage(okJson, sizes, id)
    \/ CreateJobSave
    \/ \E brokerOk \in BOOLEAN : CreateJobEnqueue(brokerOk)
    \/ \E id \in ExecIds \cup {BadId} : GetJobStatus(id)
    \/ \E id \in ExecIds \cup {BadId} : GetArtifact(id)
    \/ \E id \in ExecIds : DeleteJobWorkspace(id)
    \/ DeleteJobArtifact
    \/ DeleteJobStatus
    \/ \E id \in ExecIds : Executor(id)

Spec == Init /\ [][Next]_vars

\* the API process alone, no worker running: every upload, every job id
NextSubmit ==
    \/ \E okJson \in BOOLEAN, sizes \in Uploads, id \in JobIds :
          CreateJobStage(okJson, sizes, id)
    \/ CreateJobSave
    \/ \E brokerOk \in BOOLEAN : CreateJobEnqueue(brokerOk)
    \/ \E id \in RequestIds : GetJobStatus(id)
    \/ \E id \in RequestIds : GetArtifact(id)
    \/ \E id \in RequestIds : DeleteJobWorkspace(id)
    \/ DeleteJobArtifact
    \/ DeleteJobStatus

SpecSubmit == Init /\ [][NextSubmit]_vars

\* the executor of a job on a worker that is never killed
LiveExecutor(id) ==
    \/ Deliver(id)
    \/ UpdRead(id)
    \/ UpdTrunc(id)
    \/ UpdWrite(id)
    \/ MakeDirs(id)
    \/ \E ok \in BOOLEAN : RunStage(id, ok)
    \/ \E outcome \in {"glb", "gltf", "raise"} : ExportGlb(id, outcome)
    \/ QaMetricsExists(id)
    \/ QaMetricsMeasure(id)
    \/ Finish(id)

\* the API process and a live worker, for one job
NextLive ==
    \/ \E okJson \in BOOLEAN, sizes \in ExecUploads, id \in ExecIds :
          CreateJobStage(okJson, sizes, id)
    \/ CreateJobSave
    \/ \E brokerOk \in BOOLEAN : CreateJobEnqueue(brokerOk)
    \/ \E id \in ExecIds : GetJobStatus(id)
    \/ \E id \in ExecIds : GetArtifact(id)
    \/ \E id \in ExecIds : DeleteJobWorkspace(id)
    \/ DeleteJobArtifact
    \/ DeleteJobStatus
    \/ \E id \in ExecIds : LiveExecutor(id)

\* a handler that has started runs to its return, and a live worker takes the
\* messages of the queue and runs each statement of the task it has started
SpecLive ==
    /\ Init /\ [][NextLive]_vars
    /\ WF_vars(CreateJobSave)
    /\ WF_vars(\E brokerOk \in BOOLEAN : CreateJobEnqueue(brokerOk))
    /\ WF_vars(DeleteJobArtifact)
    /\ WF_vars(DeleteJobStatus)
    /\ \A id \in ExecIds : WF_vars(LiveExecutor(id))

\* one job, submitted once, and two workers that are never killed
NextDup ==
    \/ \E sizes \in ExecUploads, id \in ExecIds : CreateJobStage(TRUE, sizes, id)
    \/ CreateJobSave
    \/ CreateJobEnqueue(TRUE)
    \/ \E id \in ExecIds : LiveExecutor(id)
    \/ \E id \in ExecIds : Redeliver(id)
    \/ \E id \in ExecIds : Switch(id)

SpecDup == Init /\ [][NextDup]_vars

\* two jobs submitted through the API; a live worker runs the task of the
\* first while the second is deleted
NextPair ==
    \/ \E id \in JobIds : CreateJobStage(TRUE, <<HalfLimit, HalfLimit>>, id)
    \/ CreateJobSave
    \/ CreateJobEnqueue(TRUE)
    \/ \E id \in JobIds \ ExecIds : DeleteJobWorkspace(id)
    \/ DeleteJobArtifact
    \/ DeleteJobStatus
    \/ \E id \in ExecIds : LiveExecutor(id)

SpecPair == Init /\ [][NextPair]_vars

\* the staging loop of create_job alone, for any number of files
InitNames ==
    /\ InitJobs
    /\ \E c \in StartCounts : \E e1 \in UploadExts : \E e2 \in UploadExts :
          staging = StagingAt(c, e1, e2)

NextNames == \E e \in UploadExts : StageFile(e)

SpecNames == InitNames /\ [][NextNames]_vars

\* ---------------------------------------------------------------- properties

\* the status file of a job holds a complete record with this status
StatusIs(id, st) ==
    /\ statusFile[id].st = "ok"
    /\ Has(statusFile[id].data, "status")
    /\ statusFile[id].data.status = st

\* a create_job request has returned
Created == api.op = "create" /\ api.pc = "done"

\* C1: a submission with well-formed options, MIN_IMAGES <= n <= MAX_IMAGES
\* images and a cumulative size <= MAX_UPLOAD_MB*1024*1024 bytes, which the
\* broker accepts, succeeds (201), and the status read for the returned id
\* before any executor step is a record with status queued and progress 0
C1_ValidSubmissionQueued ==
    (/\ Created
     /\ api.okJson
     /\ api.n \in MIN_IMAGES..MAX_IMAGES
     /\ api.total <= UploadLimit
     /\ api.detail # "broker error")
    => /\ api.code = 201
       /\ api.job \in queue
       /\ deliveries[api.job] = 0 =>
            /\ StatusResponse(api.job).code = 200
            /\ StatusResponse(api.job).body.status = "queued"
            /\ StatusResponse(api.job).body.progress = 0

\* C1 witness: MAX_IMAGES files of exactly the byte limit were accepted
C1_Witness ==
    /\ Created /\ api.code = 201
    /\ api.n = MAX_IMAGES /\ api.total = UploadLimit
    /\ StatusIs(api.job, "queued")

\* C2 (as claimed): while the record of a job is completed, no step of an
\* executor attempt changes the status file
C2_RedeliveryNoOp ==
    [][\A id \in JobIds :
         (StatusIs(id, "completed") /\ ex'[id] # ex[id])
            => statusFile'[id] = statusFile[id]]_vars

\* C3 (as claimed): no stage adapter is invoked for a job after a completed
\* or failed record of it was written
C3_NoStageAfterTerminal == \A id \in JobIds : ~hist[id].stageAfterTerminal

\* C4 (as claimed): for a job that has reached completed, no visible record
\* had a progress below that of an earlier one, and the completed record has
\* progress 100
C4_ProgressMonotone ==
    \A id \in JobIds :
       hist[id].completed =>
          /\ ~hist[id].dropped
          /\ StatusIs(id, "completed") => statusFile[id].data.progress = 100

\* C5 (as claimed): when an attempt ended by re-raising the error of a stage
\* adapter (the job never deleted, no attempt of it ever killed), the record
\* is failed with a non-empty error and there is no artifacts/<id>.glb
C5_FailedHasNoArtifact ==
    \A id \in JobIds :
       (hist[id].outcome = "raised" /\ ~hist[id].deleted /\ ~hist[id].killed)
          => /\ StatusIs(id, "failed")
             /\ Has(statusFile[id].data, "error")
             /\ statusFile[id].data.error # ""
             /\ ~artifact[id]

\* C6 (as claimed): a status query made at any time is answered from a
\* complete record, never from a partly written file
C6_NoTornRead ==
    \A id \in JobIds : ApiFree => StatusResponse(id).code # 500

C8_TooLargeLeavesNothing ==
    (Created /\ api.total > UploadLimit)
    => /\ api.code = 413
       /\ ~ws[api.job].exists
       /\ statusFile[api.job].st = "absent"
       /\ api.job \notin queue

\* C8 witness: the limit was exceeded at the second of three files
C8_Witness ==
    /\ Created /\ api.code = 413
    /\ api.n = 3 /\ api.written = 2 /\ api.total > UploadLimit

\* C9: a submission of fewer than MIN_IMAGES images is answered 400 and the
\* call changes nothing in storage: no id, workspace, status record or task
C9_TooFewRejected ==
    [][(api' # api /\ api'.op = "create" /\ api'.pc = "done" /\ api'.n < MIN_IMAGES)
          => /\ api'.code = 400
             /\ api'.job = ""
             /\ UNCHANGED <<statusFile, ws, artifact, gltf, issued, queue>>]_vars

\* C9 witness: a submission of too few images was rejected while a job existed
C9_Witness ==
    /\ Created /\ api.code = 400 /\ api.okJson /\ api.n < MIN_IMAGES
    /\ issued # {}

\* C10: a submission with malformed options or more than MAX_IMAGES images is
\* answered 400 before anything is accepted: no id is generated, no workspace
\* or status record is written, nothing is enqueued
C10_RejectedBeforeAcceptance ==
    [][(/\ api' # api /\ api'.op = "create" /\ api'.pc = "done"
        /\ (~api'.okJson \/ api'.n > MAX_IMAGES))
          => /\ api'.code = 400
             /\ api'.job = ""
             /\ UNCHANGED <<statusFile, ws, artifact, gltf, issued, queue>>]_vars

\* C10 witness: a submission of too many images was rejected while a job existed
C10_Witness ==
    /\ Created /\ api.code = 400 /\ api.okJson /\ api.n > MAX_IMAGES
    /\ issued # {}

\* a delete_job request for the job has returned
Deleted(id) == api.op = "delete" /\ api.pc = "done" /\ api.job = id

C12_ArtifactGate ==
    \A id \in JobIds :
       statusFile[id].st = "ok" =>
          /\ ArtifactResponse(id).code = 200
                <=> (StatusIs(id, "completed") /\ artifact[id])
          /\ ~StatusIs(id, "completed")
                => /\ ArtifactResponse(id).code = 409
                   /\ ArtifactResponse(id).detail = statusFile[id].data.status
          /\ (StatusIs(id, "completed") /\ ~artifact[id])
                => ArtifactResponse(id).code = 404

\* C12 witness: the file is served for a completed job, while a get_artifact
\* request can be made
C12_Witness ==
    \E id \in JobIds : ApiFree /\ ArtifactResponse(id).code = 200

\* C13 (as claimed): when a delete_job call for a job returned while an
\* executor attempt for it was running, and that attempt has since ended by
\* itself, the attempt did not crash inside its except clause, and a record
\* it wrote after the deletion is a failed one, never a completed one
C13_DeletedEndsFailed ==
    \A id \in JobIds :
       (/\ hist[id].delDuring
        /\ ex[id].ph = "idle"
        /\ hist[id].outcome \in {"returned", "raised", "crashed"})
          => /\ hist[id].outcome # "crashed"
             /\ statusFile[id].st # "absent" => StatusIs(id, "failed")

\* C14 (as claimed): the soft time limit is below the hard one, and when the
\* last attempt of a job that was not deleted was killed after it had written
\* a record, the record of the job is failed with a non-empty error
C14_KilledEndsFailed ==
    /\ task_soft_time_limit < task_time_limit
    /\ \A id \in JobIds :
          (/\ hist[id].outcome = "killed"
           /\ ~hist[id].deleted
           /\ statusFile[id].st = "ok"
           /\ ~StatusIs(id, "queued"))
             => /\ StatusIs(id, "failed")
                /\ Has(statusFile[id].data, "error")
                /\ statusFile[id].data.error # ""

\* C15 (as claimed): with a live worker that takes what is in the queue, a
\* queued record does not stay queued for ever
C15_QueuedIsDelivered ==
    \A id \in JobIds : StatusIs(id, "queued") ~> ~StatusIs(id, "queued")

\* C16 (as claimed): while the workspace of a generated job id exists and
\* delete_job was not called for it, a status file exists for the id
C16_OneStatusRecord ==
    \A id \in JobIds :
       (id \in issued /\ ws[id].exists /\ ~hist[id].deleted)
          => statusFile[id].st # "absent"

\* C16 (amended): once create_job has passed its save_job_status call, and
\* until delete_job is called for the job, a status file exists for the id
\* (complete, or being rewritten in place)
C16_RecordFromSaveToDelete ==
    \A id \in JobIds :
       (/\ id \in issued /\ ws[id].exists /\ ~hist[id].deleted
        /\ ~(api.op = "create" /\ api.pc = "save" /\ api.job = id))
          => statusFile[id].st # "absent"

\* C16 witness: create_job has saved the queued record and not yet enqueued
C16_Witness ==
    \E id \in JobIds :
       /\ api.op = "create" /\ api.pc = "enqueue" /\ api.job = id
       /\ ws[id].exists /\ ~hist[id].deleted /\ StatusIs(id, "queued")

\* C17 (as claimed): once export_glb has returned, compute_qa_metrics never
\* sends the attempt into the except clause, and an attempt of a job that was
\* not deleted returns having written completed, progress 100, with metrics
C17_MetricsNeverFail ==
    [][\A id \in JobIds :
         /\ ex[id].ph = "metrics" => ex'[id].ph # "except"
         /\ (/\ ex[id].ph = "final" /\ ~hist[id].deleted
             /\ hist[id].outcome # "returned" /\ hist'[id].outcome = "returned")
               => /\ statusFile'[id].st = "ok"
                  /\ statusFile'[id].data.status = "completed"
                  /\ statusFile'[id].data.progress = 100
                  /\ Has(statusFile'[id].data, "metrics")]_vars

\* C18 (as claimed): every complete status record carries the job_id it is
\* stored under
C18_JobIdKept ==
    \A id \in JobIds :
       statusFile[id].st = "ok"
          => /\ Has(statusFile[id].data, "job_id")
             /\ statusFile[id].data.job_id = id

\* C19 (as claimed): in every complete status record, metrics is present only
\* with status completed, error and traceback only with status failed
C19_OptionalFieldsByStatus ==
    \A id \in JobIds :
       statusFile[id].st = "ok"
          => /\ Has(statusFile[id].data, "metrics") => StatusIs(id, "completed")
             /\ Has(statusFile[id].data, "error") => StatusIs(id, "failed")
             /\ Has(statusFile[id].data, "traceback") => StatusIs(id, "failed")

\* C20: every complete status record has a status among queued, processing,
\* completed and failed and a progress in 0..100, and progress is 100
\* whenever the status is completed
C20_StatusAndProgressRange ==
    \A id \in JobIds :
       statusFile[id].st = "ok"
          => /\ Has(statusFile[id].data, "status")
             /\ statusFile[id].data.status \in {"queued", "processing", "completed", "failed"}
             /\ Has(statusFile[id].data, "progress")
             /\ statusFile[id].data.progress \in 0..100
             /\ StatusIs(id, "completed") => statusFile[id].data.progress = 100

\* C20 witness: a record rebuilt by the executor after a deletion (it has no
\* job_id) and completed by a redelivered attempt
C20_Witness ==
    \E id \in JobIds :
       /\ StatusIs(id, "completed") /\ statusFile[id].data.progress = 100
       /\ deliveries[id] = 2 /\ ~Has(statusFile[id].data, "job_id")

\* C21: under one clock that never goes back, a completed record that has
\* both timestamps has completed_at >= created_at
C21_CompletedAfterCreated ==
    \A id \in JobIds :
       (/\ StatusIs(id, "completed")
        /\ Has(statusFile[id].data, "created_at")
        /\ Has(statusFile[id].data, "completed_at"))
          => statusFile[id].data.completed_at >= statusFile[id].data.created_at

\* C21 witness: a job created after the clock had advanced has completed
C21_Witness ==
    \E id \in JobIds :
       /\ StatusIs(id, "completed")
       /\ Has(statusFile[id].data, "created_at")
       /\ statusFile[id].data.created_at > 0
       /\ statusFile[id].data.completed_at >= statusFile[id].data.created_at

\* the errors raised by stage adapters
StageErrors == {"stage error", "export error"}

\* C22: once a stage adapter has raised, the attempt invokes no further stage
\* (it stays in the except clause until it ends), and when it re-raises, the
\* record of a job that was not deleted is failed with the adapter's error
C22_FailedBeforeReraise ==
    [][\A id \in JobIds :
         (ex[id].ph = "except" /\ ex[id].err \in StageErrors)
            => /\ ex'[id].ph \in {"except", "idle"}
               /\ (hist'[id].outcome = "raised" /\ hist[id].outcome # "raised"
                   /\ ~hist[id].deleted)
                     => /\ statusFile'[id].st = "ok"
                        /\ statusFile'[id].data.status = "failed"
                        /\ statusFile'[id].data.error = ex[id].err]_vars

\* C22 witness: the attempt has re-raised the error of export_glb, the last
\* stage, with the failed record in place
C22_Witness ==
    \E id \in JobIds :
       /\ hist[id].outcome = "raised" /\ ~hist[id].deleted
       /\ StatusIs(id, "failed") /\ statusFile[id].data.error = "export error"

\* C23 (as claimed): the failed record written by the first attempt of a job
\* that was not deleted has the progress written when the failing stage
\* started, the largest progress visible so far
C23_FailedKeepsFloor ==
    \A id \in JobIds :
       (StatusIs(id, "failed") /\ deliveries[id] = 1 /\ ~hist[id].deleted)
          => statusFile[id].data.progress = hist[id].maxProgress

\* the five stages in the order of run_reconstruction
Stages == <<"seg", "sparse", "dense", "post", "export">>

\* the weight of the i-th stage: by how much the progress written once it has
\* returned exceeds the floor it started from (0 for the first stage)
StageWeight(i) ==
    StageProgress(NextPhase(Stages[i])) - (IF i = 1 THEN 0 ELSE StageProgress(Stages[i]))

\* the cumulative progress floor of the i-th stage: the sum of the weights of
\* the stages before it
RECURSIVE StageFloor(_)
StageFloor(i) == IF i = 1 THEN 0 ELSE StageFloor(i - 1) + StageWeight(i - 1)

\* C24 (as claimed): the weights of the stages sum to 100, and whenever a
\* stage of a job that was not deleted is about to be invoked the record is
\* processing with the cumulative floor of that stage as progress
C24_ProgressIsFloor ==
    /\ StageFloor(Len(Stages)) + StageWeight(Len(Stages)) = 100
    /\ \A id \in JobIds : \A i \in 1..Len(Stages) :
          (ex[id].ph = Stages[i] /\ ex[id].sub = "run" /\ ~hist[id].deleted)
             => /\ StatusIs(id, "processing")
                /\ statusFile[id].data.progress = StageFloor(i)


\* C25: at most one attempt of a job is active at a time, so that an attempt
\* that has read the status record of the job in update_job_status writes it
\* back before any other attempt of the job reads or writes it
Merging(a) == a.ph # "idle" /\ a.sub \in {"trunc", "write"}
C25_SingleWriter ==
    \A id \in JobIds : ~(Merging(ex[id]) /\ Merging(ex2[id]))

\* the position of a stage in the pipeline
StageIndex(ph) == CHOOSE i \in 1..Len(Stages) : Stages[i] = ph
StageSet == {Stages[i] : i \in 1..Len(Stages)}

\* C26 as stated: when a stage after the first is about to be invoked, the
\* directories it receives as input are exactly the output directories passed
\* to the stage before it
C26_InputIsPriorOutput ==
    \A id \in JobIds :
        (ex[id].ph \in StageSet \ {"seg"} /\ ex[id].sub = "run")
           => StageInputs(ex[id].ph) = StageOutputs(Stages[StageIndex(ex[id].ph) - 1])

\* C26, amended: within an attempt the stages are entered in the fixed order,
\* a stage only after the stage before it has returned with its output
\* directories filled; a stage reads images/ or an output directory passed to
\* the stage before it, and at least one such output directory; and no step
\* of the attempt other than a stage changes the contents of the workspace
C26_StagesInOrder ==
    [][\A id \in JobIds :
         /\ (ex'[id].ph \in StageSet /\ ex'[id].ph # ex[id].ph)
               => IF ex'[id].ph = "seg"
                  THEN ex[id].ph = "start" /\ StageInputs("seg") = {"images"}
                  ELSE LET prev == Stages[StageIndex(ex'[id].ph) - 1]
                       IN  /\ ex[id].ph = prev /\ ex[id].sub = "run"
                           /\ \/ StageOutputs(prev) \subseteq ws'[id].filled
                              \/ prev = "seg" /\ ~sam /\ "images" \notin Present(ws[id])
                           /\ StageInputs(ex'[id].ph) \subseteq StageOutputs(prev) \cup {"images"}
                           /\ StageInputs(ex'[id].ph) \cap StageOutputs(prev) # {}
         /\ (ex'[id] # ex[id] /\ ~(ex[id].ph \in StageSet /\ ex[id].sub = "run"))
               => /\ ws'[id].filled = ws[id].filled
                  /\ ws'[id].nimages = ws[id].nimages]_vars

\* an attempt is about to invoke export_glb after every stage before it has
\* filled its output directories
C26_Witness ==
    \E id \in JobIds :
        /\ ex[id].ph = "export" /\ ex[id].sub = "run"
        /\ StageDirs \subseteq ws[id].filled

\* C27: within one attempt no stage adapter is invoked a second time, and a
\* stage that raises takes the attempt to the except clause, which writes the
\* failed record and re-raises: no stage is entered after it
C27_NoStageRetry ==
    [][\A id \in JobIds :
         /\ ~hist'[id].reinvoked
         /\ (ex[id].ph = "except" /\ ex'[id].ph # "except") => ex'[id].ph \in {"idle", "start"}
         /\ (ex[id].ph \in StageSet /\ ex'[id].ph = "except" /\ ex[id].sub = "run")
               => ex'[id] = Raise(id, ex'[id].err)]_vars

\* an attempt has invoked three stage adapters, the last of them has raised,
\* and the attempt has written the failed record and is about to re-raise
C27_Witness ==
    \E id \in JobIds :
        /\ ex[id].ph = "except" /\ ex[id].sub = "run" /\ ex[id].err = "stage error"
        /\ hist[id].invoked = {"seg", "sparse", "dense"}
        /\ StatusIs(id, "failed") /\ statusFile[id].data.error = "stage error"

\* the keys a call of update_job_status names: status, progress, message,
\* the updated_at it sets, and the keyword arguments of the call
UpdateKeys(ph) ==
    {"status", "progress", "message", "updated_at"}
       \cup (CASE ph = "final" -> {"completed_at", "metrics"}
               [] ph = "except" -> {"error", "traceback"}
               [] OTHER -> {})

\* C28: the record update_job_status writes holds every field of the record
\* it read that the call does not name, with the same value, and the fields
\* the call names; with no record to read it writes a record of the named
\* fields only; and the merged record is the one that reaches the file
C28_UpdateMerges ==
    [][\A id \in JobIds :
         /\ (ex[id].sub = "read" /\ ex'[id].sub = "trunc")
               => LET old == IF statusFile[id].st = "ok" THEN statusFile[id].data
                             ELSE EmptyDict
                      new == ex'[id].data
                  IN  /\ DOMAIN new = DOMAIN old \cup UpdateKeys(ex[id].ph)
                      /\ \A k \in DOMAIN old \ UpdateKeys(ex[id].ph) : new[k] = old[k]
                      /\ new.status = StageStatus(ex[id].ph)
         /\ (ex[id].sub = "write" /\ ex'[id].sub = "run" /\ statusFile'[id].st # "absent")
               => statusFile'[id] = FileOf(ex[id].data)]_vars

\* the completed record of a job still holds the fields create_job wrote
C28_Witness ==
    \E id \in JobIds :
        /\ StatusIs(id, "completed")
        /\ Has(statusFile[id].data, "job_id") /\ statusFile[id].data.job_id = id
        /\ Has(statusFile[id].data, "num_images") /\ Has(statusFile[id].data, "options")
        /\ Has(statusFile[id].data, "created_at")

\* C29: a record becomes queued only by the write of create_job, for the
\* job id of the request, whose record did not exist and whose task was never
\* enqueued nor delivered; no attempt prepares a record with status queued.
\* So a job that has been processing, completed or failed is never queued
\* again
C29_QueuedOnlyAtCreation ==
    [][\A id \in JobIds :
         /\ (~StatusIs(id, "queued") /\ StatusIs(id, "queued")')
               => /\ api.op = "create" /\ api.pc = "save" /\ api.job = id
                  /\ statusFile[id].st = "absent"
                  /\ id \notin queue /\ deliveries[id] = 0
                  /\ ~hist[id].terminal /\ hist[id].maxProgress = 0
         /\ (StatusIs(id, "processing") \/ StatusIs(id, "completed")
               \/ StatusIs(id, "failed")) => ~StatusIs(id, "queued")'
         /\ Has(ex'[id].data, "status") => ex'[id].data.status # "queued"]_vars

\* a job that has had a completed or failed record is delivered again and is
\* processing
C29_Witness ==
    \E id \in JobIds :
        /\ hist[id].terminal /\ deliveries[id] > 1
        /\ StatusIs(id, "processing")

\* the storage of a job: its status record, its workspace tree and its
\* artifact files
Storage(id) == <<statusFile[id], ws[id], artifact[id], gltf[id]>>

\* C30: a step of create_job or delete_job for job j, or of an attempt of
\* run_reconstruction for job j, leaves the storage of every other job k
\* unchanged: every step that changes the storage of k is a step of a request
\* for k or of an attempt of k
C30_OtherJobsUntouched ==
    [][\A k \in JobIds :
         Storage(k)' # Storage(k)
            => \/ api' # api /\ api'.job = k /\ api'.op \in {"create", "delete"}
               \/ ex'[k] # ex[k] /\ ex[k].ph # "idle"]_vars

\* a delete_job call for one job has returned while another job, whose
\* attempt has completed, still has its record, its workspace and its
\* artifact
C30_Witness ==
    \E j \in JobIds : \E k \in JobIds \ {j} :
        /\ api.op = "delete" /\ api.pc = "done" /\ api.code = 200 /\ api.job = j
        /\ hist[j].deletes > 0 /\ issued = JobIds
        /\ StatusIs(k, "completed") /\ ws[k].exists /\ artifact[k]

\* the index a stored file name starts with: int() of the characters before
\* the first "."
RECURSIVE IndexOf(_, _)
IndexOf(name, acc) ==
    IF name = <<>> \/ name[1] \notin 48..57 THEN acc
    ELSE IndexOf(Tail(name), 10 * acc + (name[1] - 48))

\* C31 as stated: whatever the number of files, the name of each file the
\* staging loop writes sorts after the name of the file written before it
C31_NamesSortInUploadOrder ==
    staging.count >= 2 => LexLess(staging.prev, staging.last)

\* C31, amended: the name of the file with index i is its index in at least
\* 4 digits followed by the lower-cased extension, so names of distinct
\* indices differ; and up to index 9999 each name sorts after the name of
\* the file written before it, so sorting the names yields the upload order
C31_NamesSortUpTo9999 ==
    /\ staging.count >= 1
          => /\ IndexOf(staging.last, 0) = staging.count - 1
             /\ Len(staging.last) > 4 /\ \A k \in 1..4 : staging.last[k] \in 48..57
             /\ staging.last = Lower(staging.last)
    /\ staging.count >= 2
          => /\ staging.prev # staging.last
             /\ staging.count <= 10000 => LexLess(staging.prev, staging.last)

\* the loop has written file 1000 after file 999
C31_Witness ==
    /\ staging.count = 1001
    /\ IndexOf(staging.prev, 0) = 999 /\ IndexOf(staging.last, 0) = 1000
    /\ LexLess(staging.prev, staging.last)

\* C32: a submission rejected for its size was rejected at the first file
\* whose running total exceeds MAX_UPLOAD_MB*1024*1024 bytes: the total
\* without the last file written was within the limit, the total with it is
\* not, no later file was written, and the check is not left to the end of
\* the loop
C32_FailsAtFirstExcess ==
    (Created /\ api.code = 413)
       => /\ TooLarge(api.total) /\ ~TooLarge(api.total - api.last)
          /\ api.written \in 1..api.n

\* a submission of three files is rejected after its first file
C32_Witness ==
    /\ Created /\ api.code = 413
    /\ api.n = 3 /\ api.written = 1 /\ api.last = UploadLimit + 1

\* C33: while the record of a job that was never deleted says completed,
\* artifacts/<id>.glb exists
C33_CompletedHasArtifact ==
    \A id \in JobIds :
        (StatusIs(id, "completed") /\ ~hist[id].deleted) => artifact[id]

\* C34: once a delete_job call for a job has returned, the job has no status
\* record, no workspace directory and no artifact, whatever an attempt of the
\* job does during or after the call
C34_DeletedStaysDeleted ==
    \A id \in JobIds :
        hist[id].deletes > 0
           => /\ statusFile[id].st = "absent"
              /\ ~ws[id].exists
              /\ ~artifact[id]

\* C35: when create_job has ended because the broker refused the task, the
\* generated job id has no status record and no workspace; and a queued
\* record outside a create_job call in progress belongs to a task that was
\* enqueued
C35_FailedEnqueueLeavesNothing ==
    /\ (Created /\ api.code = 500)
          => statusFile[api.job].st = "absent" /\ ~ws[api.job].exists
    /\ \A id \in JobIds :
          (StatusIs(id, "queued") /\ ~(api.op = "create" /\ api.pc # "done" /\ api.job = id))
             => id \in queue

\* C36: the task of a job is enqueued only when the queued record of the job
\* is in place; the queued record is written where no record exists, for a
\* job whose task is not yet enqueued; and the first attempt of a job that
\* was not deleted starts from the queued record
C36_QueuedBeforeEnqueue ==
    [][\A id \in JobIds :
         /\ (id \notin queue /\ id \in queue') => StatusIs(id, "queued")
         /\ (statusFile'[id] # statusFile[id] /\ StatusIs(id, "queued")')
               => /\ statusFile[id].st = "absent"
                  /\ id \notin queue /\ ex[id].ph = "idle" /\ deliveries[id] = 0
         /\ (deliveries[id] = 0 /\ deliveries'[id] = 1 /\ ~hist[id].deleted)
               => id \in queue /\ StatusIs(id, "queued")]_vars

\* the first attempt of a job has written processing over the queued record:
\* the fields create_job wrote are still there
C36_Witness ==
    \E id \in JobIds :
        /\ id \in queue /\ deliveries[id] = 1 /\ ~hist[id].deleted
        /\ StatusIs(id, "processing") /\ Has(statusFile[id].data, "created_at")
        /\ statusFile[id].data.message = "Pipeline started"

\* C37: an attempt that ends without being killed, for a job that was not
\* deleted, leaves the status record of the job completed or failed
C37_AttemptEndsTerminal ==
    [][\A id \in JobIds :
         (/\ ex[id].ph # "idle" /\ ex'[id].ph = "idle"
          /\ hist'[id].outcome # "killed" /\ ~hist'[id].deleted)
            => StatusIs(id, "completed")' \/ StatusIs(id, "failed")']_vars

\* C38: a get_job_status or get_artifact request, for a job id that is
\* valid, unknown or malformed, leaves every status record, workspace and
\* artifact and the task queue as they were
C38_QueriesReadOnly ==
    [][\A id \in RequestIds :
         (GetJobStatus(id) \/ GetArtifact(id))
            => UNCHANGED <<statusFile, ws, artifact, gltf, queue>>]_vars

\* both queries can be made and are answered 200 for a completed job whose
\* workspace, record, artifact and task message are all in place
C38_Witness ==
    \E id \in JobIds :
        /\ ApiFree /\ StatusResponse(id).code = 200 /\ ArtifactResponse(id).code = 200
        /\ ws[id].exists /\ artifact[id] /\ id \in queue
        /\ StatusResponse(BadId).code = 400 /\ ArtifactResponse(BadId).code = 400

====
